---- MODULE Spec2Model ----
(***************************************************************************)
(* Model of backend/logic.py of the AI PR reviewer: the diff truncator     *)
(* (truncate_diff), the response normalizer (parse_llm_response), the URL  *)
(* parser (parse_pr_url) and the pipeline that runs them                   *)
(* (review_pull_request).                                                  *)
(*                                                                         *)
(* Text handed to parse_llm_response is a sequence of lexemes: single      *)
(* characters (braces, brackets, colon, comma, blanks, newlines, form      *)
(* feeds, backticks), words of letters, and JSON string / number / literal *)
(* tokens.  The code never cuts inside a word or a token (it slices after  *)
(* the first newline and before a trailing run of three backticks), so the *)
(* lexeme sequence carries every position the code looks at.  String       *)
(* tokens of the model contain no brace and no backtick.                   *)
(*                                                                         *)
(* Text handed to truncate_diff is a sequence of single characters.        *)
(***************************************************************************)
EXTENDS Integers, Sequences, FiniteSets, TLC

-----------------------------------------------------------------------------
(* Lexemes *)

Ch(c) == [k |-> "ch", c |-> c]
Word(w) == [k |-> "word", w |-> w]
StrLex(s) == [k |-> "str", s |-> s]
IntLex(n) == [k |-> "int", n |-> n]
FloatLex(w, f) == [k |-> "float", whole |-> w, frac |-> f]
LitLex(l) == [k |-> "lit", l |-> l]
\* the backtick character
Backtick == Ch("backtick")

\* str.strip() with no argument removes every Unicode whitespace character;
\* the JSON scanner skips only blank, tab, newline and carriage return.
IsPyWs(x) == x \in {Ch(" "), Ch("\n"), Ch("\f")}
IsJsonWs(x) == x \in {Ch(" "), Ch("\n")}

-----------------------------------------------------------------------------
(* Python values produced by json.loads *)

VStr(s) == [t |-> "str", s |-> s]
VInt(n) == [t |-> "int", n |-> n]
VFloat(w, f) == [t |-> "float", whole |-> w, frac |-> f]
VBool(b) == [t |-> "bool", b |-> b]
VNull == [t |-> "null"]
VList(items) == [t |-> "list", items |-> items]
\* a dict is kept as its sequence of (key, value) pairs in source order;
\* a repeated key keeps its last value (DictGet)
VDict(kv) == [t |-> "dict", kv |-> kv]
Pair(key, v) == [key |-> key, v |-> v]

\* dict built from parsed pairs: a repeated key stays at its first position
\* and takes its last value
RECURSIVE PyDict(_, _)
PyDict(ps, acc) ==
    IF ps = <<>> THEN acc
    ELSE LET p == Head(ps)
             hit == {i \in 1..Len(acc) : acc[i].key = p.key}
         IN PyDict(Tail(ps),
                   IF hit = {} THEN Append(acc, p)
                   ELSE [i \in 1..Len(acc) |-> IF i \in hit THEN p ELSE acc[i]])

\* dict.get(key, default)
DictGet(d, key, default) ==
    LET hit == {i \in 1..Len(d.kv) : d.kv[i].key = key} IN
    IF hit = {} THEN default ELSE d.kv[CHOOSE i \in hit : TRUE].v

-----------------------------------------------------------------------------
(* json.loads *)

Ok(v, pos) == [ok |-> TRUE, v |-> v, pos |-> pos]
Err(msg, pos) == [ok |-> FALSE, msg |-> msg, pos |-> pos]

RECURSIVE SkipWs(_, _)
SkipWs(t, i) == IF i <= Len(t) /\ IsJsonWs(t[i]) THEN SkipWs(t, i + 1) ELSE i

At(t, i) == IF i <= Len(t) THEN t[i] ELSE [k |-> "eof"]

RECURSIVE ScanOnce(_, _), JSONArray(_, _, _), JSONObject(_, _, _)

\* the loop of JSONArray: i is the position of the next value
JSONArray(t, i, acc) ==
    LET r == ScanOnce(t, i) IN
    IF ~r.ok THEN r
    ELSE LET j == SkipWs(t, r.pos)
             vs == Append(acc, r.v)
         IN IF At(t, j) = Ch("]") THEN Ok(VList(vs), j + 1)
            ELSE IF At(t, j) # Ch(",") THEN Err("Expecting ',' delimiter", j)
            ELSE JSONArray(t, SkipWs(t, j + 1), vs)

\* the loop of JSONObject: i is the position of the next key
JSONObject(t, i, acc) ==
    LET c == SkipWs(t, i + 1) IN
    IF At(t, c) # Ch(":") THEN Err("Expecting ':' delimiter", c)
    ELSE LET r == ScanOnce(t, SkipWs(t, c + 1)) IN
         IF ~r.ok THEN r
         ELSE LET j == SkipWs(t, r.pos)
                  ps == Append(acc, Pair(t[i].s, r.v))
                  n == SkipWs(t, j + 1)
              IN IF At(t, j) = Ch("}") THEN Ok(VDict(PyDict(ps, <<>>)), j + 1)
                 ELSE IF At(t, j) # Ch(",") THEN Err("Expecting ',' delimiter", j)
                 ELSE IF At(t, n).k # "str"
                      THEN Err("Expecting property name enclosed in double quotes", n)
                 ELSE JSONObject(t, n, ps)

ScanOnce(t, i) ==
    LET x == At(t, i) IN
    CASE x.k = "str" -> Ok(VStr(x.s), i + 1)
      [] x.k = "int" -> Ok(VInt(x.n), i + 1)
      [] x.k = "float" -> Ok(VFloat(x.whole, x.frac), i + 1)
      [] x.k = "lit" -> Ok((CASE x.l = "null" -> VNull
                              [] x.l = "true" -> VBool(TRUE)
                              [] x.l = "false" -> VBool(FALSE)), i + 1)
      [] x = Ch("[") ->
            LET j == SkipWs(t, i + 1) IN
            IF At(t, j) = Ch("]") THEN Ok(VList(<<>>), j + 1)
            ELSE JSONArray(t, j, <<>>)
      [] x = Ch("{") ->
            LET j == SkipWs(t, i + 1) IN
            IF At(t, j) = Ch("}") THEN Ok(VDict(<<>>), j + 1)
            ELSE IF At(t, j).k # "str"
                 THEN Err("Expecting property name enclosed in double quotes", j)
            ELSE JSONObject(t, j, <<>>)
      [] OTHER -> Err("Expecting value", i)

\* json.loads(s): one value, blanks around it, nothing else
JsonLoads(t) ==
    LET r == ScanOnce(t, SkipWs(t, 1)) IN
    IF ~r.ok THEN r
    ELSE LET e == SkipWs(t, r.pos) IN
         IF e # Len(t) + 1 THEN Err("Extra data", e) ELSE r

-----------------------------------------------------------------------------
(* json.dumps with the default separators ", " and ": " *)

RECURSIVE Dumps(_), DumpItems(_, _), DumpPairs(_, _)

DumpItems(items, i) ==
    IF i > Len(items) THEN <<>>
    ELSE (IF i > 1 THEN <<Ch(","), Ch(" ")>> ELSE <<>>)
         \o Dumps(items[i]) \o DumpItems(items, i + 1)

DumpPairs(kv, i) ==
    IF i > Len(kv) THEN <<>>
    ELSE (IF i > 1 THEN <<Ch(","), Ch(" ")>> ELSE <<>>)
         \o <<StrLex(kv[i].key), Ch(":"), Ch(" ")>> \o Dumps(kv[i].v)
         \o DumpPairs(kv, i + 1)

Dumps(v) ==
    CASE v.t = "str" -> <<StrLex(v.s)>>
      [] v.t = "int" -> <<IntLex(v.n)>>
      [] v.t = "float" -> <<FloatLex(v.whole, v.frac)>>
      [] v.t = "bool" -> <<LitLex(IF v.b THEN "true" ELSE "false")>>
      [] v.t = "null" -> <<LitLex("null")>>
      [] v.t = "list" -> <<Ch("[")>> \o DumpItems(v.items, 1) \o <<Ch("]")>>
      [] v.t = "dict" -> <<Ch("{")>> \o DumpPairs(v.kv, 1) \o <<Ch("}")>>

-----------------------------------------------------------------------------
(* Text helpers of parse_llm_response *)

RECURSIVE LStrip(_)
LStrip(t) == IF t # <<>> /\ IsPyWs(Head(t)) THEN LStrip(Tail(t)) ELSE t

RECURSIVE RStrip(_)
RStrip(t) ==
    IF t # <<>> /\ IsPyWs(t[Len(t)]) THEN RStrip(SubSeq(t, 1, Len(t) - 1)) ELSE t

\* str.strip()
Strip(t) == RStrip(LStrip(t))

\* str.startswith and str.endswith of a run of three backticks
StartsWithFence(t) == Len(t) >= 3 /\ \A i \in 1..3 : t[i] = Backtick
EndsWithFence(t) == Len(t) >= 3 /\ \A i \in (Len(t) - 2)..Len(t) : t[i] = Backtick

\* str.find("\n"): position of the first newline, 0 when there is none
FindNewline(t) ==
    LET hit == {i \in 1..Len(t) : t[i] = Ch("\n")} IN
    IF hit = {} THEN 0 ELSE CHOOSE i \in hit : \A j \in hit : i <= j

\* Clean that keeps the fence line and drops what follows it
CleanKeepsFenceLine(raw_response) ==
    LET c0 == Strip(raw_response) IN
    IF StartsWithFence(c0)
    THEN LET first_newline == FindNewline(c0)
             c1 == IF first_newline # 0
                   THEN SubSeq(c0, 1, first_newline - 1) ELSE c0
         IN IF EndsWithFence(c1) THEN Strip(SubSeq(c1, 1, Len(c1) - 3)) ELSE c1
    ELSE c0

\* lines 200-208: strip, then remove a leading fence line and a trailing fence
Clean(raw_response) ==
    LET c0 == Strip(raw_response) IN
    IF StartsWithFence(c0)
    THEN LET first_newline == FindNewline(c0)
             c1 == IF first_newline # 0
                   THEN SubSeq(c0, first_newline + 1, Len(c0)) ELSE c0
         IN IF EndsWithFence(c1) THEN Strip(SubSeq(c1, 1, Len(c1) - 3)) ELSE c1
    ELSE c0

\* RegexSearch with a lazy quantifier: from the first "{" to the first "}"
\* after it
RegexSearchLazy(t) ==
    LET opens == {i \in 1..Len(t) : t[i] = Ch("{")}
        first == CHOOSE i \in opens : \A j \in opens : i <= j
        closes == {i \in 1..Len(t) : t[i] = Ch("}") /\ opens # {} /\ i > first}
        last == CHOOSE i \in closes : \A j \in closes : i <= j
    IN IF opens = {} \/ closes = {} THEN <<>> ELSE SubSeq(t, first, last)

\* re.search(r'\{[\s\S]*\}', cleaned): from the first "{" to the last "}"
\* after it; <<>> stands for no match (a match has at least two characters)
RegexSearch(t) ==
    LET opens == {i \in 1..Len(t) : t[i] = Ch("{")}
        first == CHOOSE i \in opens : \A j \in opens : i <= j
        closes == {i \in 1..Len(t) : t[i] = Ch("}") /\ opens # {} /\ i > first}
        last == CHOOSE i \in closes : \A j \in closes : i >= j
    IN IF opens = {} \/ closes = {} THEN <<>> ELSE SubSeq(t, first, last)

-----------------------------------------------------------------------------
(* Python built-ins used by the field extraction *)

IntRange == -12..45

\* str.upper() on the strings of the model
PyUpper(s) ==
    CASE s \in {"approve", "Approve"} -> "APPROVE"
      [] s = "request_changes" -> "REQUEST_CHANGES"
      [] s = "lgtm" -> "LGTM"
      [] s = "ok" -> "OK"
      [] OTHER -> s

\* repr(x) of a value nested in a container (strings of the model hold no
\* quote and no backslash)
RECURSIVE PyRepr(_), ReprItems(_, _), ReprPairs(_, _)

ReprItems(items, i) ==
    IF i > Len(items) THEN ""
    ELSE (IF i > 1 THEN ", " ELSE "") \o PyRepr(items[i]) \o ReprItems(items, i + 1)

ReprPairs(kv, i) ==
    IF i > Len(kv) THEN ""
    ELSE (IF i > 1 THEN ", " ELSE "") \o "'" \o kv[i].key \o "': "
         \o PyRepr(kv[i].v) \o ReprPairs(kv, i + 1)

PyRepr(v) ==
    CASE v.t = "str" -> "'" \o v.s \o "'"
      [] v.t = "int" -> ToString(v.n)
      [] v.t = "float" -> ToString(v.whole) \o "." \o ToString(v.frac)
      [] v.t = "bool" -> (IF v.b THEN "True" ELSE "False")
      [] v.t = "null" -> "None"
      [] v.t = "list" -> "[" \o ReprItems(v.items, 1) \o "]"
      [] v.t = "dict" -> "{" \o ReprPairs(v.kv, 1) \o "}"

\* str(x): a string is itself, anything else prints as its repr
PyStr(v) == IF v.t = "str" THEN v.s ELSE PyRepr(v)

\* int(x): the number, or the exception it raises
PyInt(v) ==
    CASE v.t = "int" -> [ok |-> TRUE, n |-> v.n]
      [] v.t = "bool" -> [ok |-> TRUE, n |-> IF v.b THEN 1 ELSE 0]
      [] v.t = "float" -> [ok |-> TRUE, n |-> v.whole]
      [] v.t = "str" ->
            IF \E n \in IntRange : ToString(n) = v.s
            THEN [ok |-> TRUE, n |-> CHOOSE n \in IntRange : ToString(n) = v.s]
            ELSE [ok |-> FALSE, exc |-> "ValueError"]
      [] OTHER -> [ok |-> FALSE, exc |-> "TypeError"]

PyMax(a, b) == IF b > a THEN b ELSE a

-----------------------------------------------------------------------------
(* models.py *)

ReviewDecision == {"APPROVE", "REQUEST_CHANGES"}

\* FileComment(...): pydantic validates line >= 1 (Field(..., ge=1))
FileComment(file, line, issue, suggestion) ==
    IF line >= 1
    THEN [ok |-> TRUE,
          c |-> [file |-> file, line |-> line, issue |-> issue,
                 suggestion |-> suggestion]]
    ELSE [ok |-> FALSE, exc |-> "ValidationError"]

\* ReviewResponse(...): pydantic validates the decision against the enum
ReviewResponse(summary, comments, decision) ==
    IF decision \in ReviewDecision
    THEN [ok |-> TRUE,
          r |-> [summary |-> summary, comments |-> comments, decision |-> decision]]
    ELSE [ok |-> FALSE, exc |-> "ValueError"]

-----------------------------------------------------------------------------
(* parse_llm_response, lines 228-254: the field extraction *)

Raised(exc) == [ok |-> FALSE, exc |-> exc]

\* one pass of the loop body, lines 238-243
CommentOf(c) ==
    IF c.t # "dict" THEN Raised("AttributeError")
    ELSE LET n == PyInt(DictGet(c, "line", VInt(1))) IN
         IF ~n.ok THEN Raised(n.exc)
         ELSE FileComment(PyStr(DictGet(c, "file", VStr("unknown"))),
                          PyMax(1, n.n),
                          PyStr(DictGet(c, "issue", VStr(""))),
                          PyStr(DictGet(c, "suggestion", VStr(""))))

\* CommentLoop that inserts each comment at the front of the list
RECURSIVE CommentLoopReversed(_, _)
CommentLoopReversed(items, acc) ==
    IF items = <<>> THEN [ok |-> TRUE, comments |-> acc]
    ELSE LET fc == CommentOf(Head(items)) IN
         IF ~fc.ok THEN fc ELSE CommentLoopReversed(Tail(items), <<fc.c>> \o acc)

RECURSIVE CommentLoop(_, _)
CommentLoop(items, acc) ==
    IF items = <<>> THEN [ok |-> TRUE, comments |-> acc]
    ELSE LET fc == CommentOf(Head(items)) IN
         IF ~fc.ok THEN fc ELSE CommentLoop(Tail(items), Append(acc, fc.c))

\* for c in <value>: a list yields its items; a non-empty str or dict yields
\* str elements first, on which c.get raises; None, numbers and booleans are
\* not iterable
ParseComments(cv) ==
    CASE cv.t = "list" -> CommentLoop(cv.items, <<>>)
      [] cv.t = "str" -> IF cv.s = "" THEN [ok |-> TRUE, comments |-> <<>>]
                         ELSE Raised("AttributeError")
      [] cv.t = "dict" -> IF cv.kv = <<>> THEN [ok |-> TRUE, comments |-> <<>>]
                          ELSE Raised("AttributeError")
      [] OTHER -> Raised("TypeError")

\* the result of a call: a returned response or a raised exception
Returned(r) == [kind |-> "ok", response |-> r]
ValueError(msg, cause) ==
    [kind |-> "error", exc |-> "ValueError", msg |-> msg, cause |-> cause]

\* ConstructError without the except clause: the exception leaves as it is
ConstructErrorUnwrapped(exc, lg) ==
    [result |-> [kind |-> "error", exc |-> exc,
                 msg |-> "Failed to construct ReviewResponse", cause |-> [exc |-> exc]],
     log |-> lg]

\* lines 252-254: whatever the extraction raises is logged and raised again
\* as a ValueError
ConstructError(exc, lg) ==
    [result |-> ValueError("Failed to construct ReviewResponse", [exc |-> exc]),
     log |-> lg \o <<"error: constructing ReviewResponse">>]

Construct(data, lg) ==
    IF data.t # "dict" THEN ConstructError("AttributeError", lg)
    ELSE LET d == DictGet(data, "decision", VStr("REQUEST_CHANGES")) IN
    IF d.t # "str" THEN ConstructError("AttributeError", lg)
    ELSE LET up == PyUpper(d.s)
             invalid == up \notin {"APPROVE", "REQUEST_CHANGES"}
             decision_str == IF invalid THEN "REQUEST_CHANGES" ELSE up
             lg1 == IF invalid THEN lg \o <<"warning: invalid decision">> ELSE lg
             cs == ParseComments(DictGet(data, "comments", VList(<<>>)))
         IN IF ~cs.ok THEN ConstructError(cs.exc, lg1)
            ELSE LET rr == ReviewResponse(
                               PyStr(DictGet(data, "summary",
                                             VStr("No summary provided"))),
                               cs.comments, decision_str)
                 IN IF ~rr.ok THEN ConstructError(rr.exc, lg1)
                    ELSE [result |-> Returned(rr.r),
                          log |-> lg1 \o <<"info: parsed review">>]

-----------------------------------------------------------------------------
(* parse_llm_response, lines 194-226: cleaning and the two parse attempts *)

\* the local variable data when no parse attempt succeeded
NoData == [t |-> "unbound"]

\* the call gives its result (a response returned or a ValueError raised),
\* the lines it logged and the value of the local variable data
parse_llm_response(raw_response) ==
    LET cleaned == Clean(raw_response)
        lg0 == <<"info: parsing">>
        first == JsonLoads(cleaned)
        e == [msg |-> first.msg, pos |-> first.pos]
        lg1 == lg0 \o <<"warning: attempting regex extraction">>
        json_match == RegexSearch(cleaned)
        second == JsonLoads(json_match)
        WithData(r, d) == [result |-> r.result, log |-> r.log, data |-> d]
    IN IF first.ok THEN WithData(Construct(first.v, lg0), first.v)
       ELSE IF json_match # <<>>
            THEN IF second.ok THEN WithData(Construct(second.v, lg1), second.v)
                 ELSE [result |-> ValueError("Failed to parse LLM response as JSON", e),
                       log |-> lg1 \o <<"error: regex extraction failed">>,
                       data |-> NoData]
            ELSE [result |-> ValueError("No valid JSON found in LLM response", e),
                  log |-> lg1 \o <<"error: no JSON structure">>,
                  data |-> NoData]

-----------------------------------------------------------------------------
(* truncate_diff, lines 121-135; a diff is a sequence of characters *)

MAX_DIFF_CHARS == 10000

\* the literal appended at line 135
TruncationMarker ==
    <<
       "\n", "\n", "[", ".", ".", ".", " ", "D", "I", "F", "F",
       " ", "T", "R", "U", "N", "C", "A", "T", "E", "D", " ",
       "D", "U", "E", " ", "T", "O", " ", "S", "I", "Z", "E",
       " ", "L", "I", "M", "I", "T", " ", ".", ".", ".", "]">>

\* PyPrefix that keeps one character more
PyPrefixOffByOne(s, n) ==
    IF n >= 0 THEN SubSeq(s, 1, IF n + 1 < Len(s) THEN n + 1 ELSE Len(s))
    ELSE SubSeq(s, 1, Len(s) + n + 1)

\* s[:n] of Python, also for negative n
PyPrefix(s, n) ==
    IF n >= 0 THEN SubSeq(s, 1, IF n < Len(s) THEN n ELSE Len(s))
    ELSE SubSeq(s, 1, Len(s) + n)

\* str.rfind("\n"): 0-based index of the last newline, -1 when there is none
RFindNewline(s) ==
    LET hit == {i \in 1..Len(s) : s[i] = "\n"} IN
    IF hit = {} THEN -1 ELSE (CHOOSE i \in hit : \A j \in hit : i >= j) - 1

\* PastThreshold with >= for >
PastThresholdInclusive(last_newline, max_chars) == 5 * last_newline >= 4 * max_chars

\* last_newline > max_chars * 0.8, in integers (0.8 = 4/5)
PastThreshold(last_newline, max_chars) == 5 * last_newline > 4 * max_chars

\* truncate_diff that returns early only below the limit (< for <=)
truncate_diff_strict(diff_content, max_chars) ==
    IF Len(diff_content) < max_chars THEN diff_content
    ELSE LET truncated == PyPrefix(diff_content, max_chars)
             last_newline == RFindNewline(truncated)
         IN (IF PastThreshold(last_newline, max_chars)
             THEN PyPrefix(truncated, last_newline) ELSE truncated)
            \o TruncationMarker

truncate_diff(diff_content, max_chars) ==
    IF Len(diff_content) <= max_chars THEN diff_content
    ELSE LET truncated == PyPrefix(diff_content, max_chars)
             last_newline == RFindNewline(truncated)
         IN (IF PastThreshold(last_newline, max_chars)
             THEN PyPrefix(truncated, last_newline) ELSE truncated)
            \o TruncationMarker

-----------------------------------------------------------------------------
(* parse_pr_url, lines 58-76; a URL is a sequence of pieces: the scheme, the *)
(* separator after it, the host, slashes, runs of digits, other runs of      *)
(* characters without a slash, blanks and line ends                          *)

\* str.strip() on a sequence of pieces or characters
CharWs == {" ", "\n", "\t"}

RECURSIVE CharLStrip(_)
CharLStrip(s) == IF s # <<>> /\ Head(s) \in CharWs THEN CharLStrip(Tail(s)) ELSE s

RECURSIVE CharRStrip(_)
CharRStrip(s) ==
    IF s # <<>> /\ s[Len(s)] \in CharWs THEN CharRStrip(SubSeq(s, 1, Len(s) - 1)) ELSE s

CharStrip(s) == CharRStrip(CharLStrip(s))

\* the runs of digits of the model and int() of them
DigitRange == 0..130
IsDigits(x) == x = "007" \/ \E n \in DigitRange : ToString(n) = x
PyIntOfDigits(x) ==
    IF x = "007" THEN 7 ELSE CHOOSE n \in DigitRange : ToString(n) = x

\* the piece at position i, "" past the end
UrlAt(u, i) == IF i <= Len(u) THEN u[i] ELSE ""

\* [^/]+ from position i: the position after the run of pieces without slash
RECURSIVE RunEnd(_, _)
RunEnd(u, i) == IF i <= Len(u) /\ u[i] # "/" THEN RunEnd(u, i + 1) ELSE i

RECURSIVE Concat(_, _, _)
Concat(u, i, j) == IF i >= j THEN "" ELSE u[i] \o Concat(u, i + 1, j)

\* re.match(r"https?://github\.com/([^/]+)/([^/]+)/pull/(\d+)", u): the
\* pattern at the start of the string, anything after it
ReMatch(u) ==
    LET o2 == RunEnd(u, 5)
        r1 == o2 + 1
        r2 == RunEnd(u, r1)
    IN IF /\ UrlAt(u, 1) \in {"http", "https"} /\ UrlAt(u, 2) = "://"
          /\ UrlAt(u, 3) = "github.com" /\ UrlAt(u, 4) = "/"
          /\ o2 > 5 /\ UrlAt(u, o2) = "/"
          /\ r2 > r1 /\ UrlAt(u, r2) = "/"
          /\ UrlAt(u, r2 + 1) = "pull" /\ UrlAt(u, r2 + 2) = "/"
          /\ IsDigits(UrlAt(u, r2 + 3))
       THEN [ok |-> TRUE,
             groups |-> <<Concat(u, 5, o2), Concat(u, r1, r2), u[r2 + 3]>>]
       ELSE [ok |-> FALSE]

\* the tuple returned, or the ValueError raised at line 70
parse_pr_url(pr_url) ==
    LET match == ReMatch(CharStrip(pr_url)) IN
    IF ~match.ok
    THEN [ok |-> FALSE, exc |-> "ValueError", msg |-> "Invalid GitHub PR URL format"]
    ELSE [ok |-> TRUE, owner |-> match.groups[1], repo |-> match.groups[2],
          number |-> PyIntOfDigits(match.groups[3])]

-----------------------------------------------------------------------------
(* review_pull_request, lines 257-286: the pieces of its steps *)

RECURSIVE JoinWords(_)
JoinWords(ws) ==
    IF ws = <<>> THEN ""
    ELSE IF Len(ws) = 1 THEN ws[1]
    ELSE ws[1] \o " " \o JoinWords(Tail(ws))

\* the summary literal of line 272, word by word
EmptyDiffWords ==
    <<"This", "PR", "appears", "to", "have", "no", "changes", "or", "an",
      "empty", "diff.">>

\* EmptyDiffReview with the fail-safe decision
EmptyDiffReviewCautious ==
    [summary |-> JoinWords(EmptyDiffWords), comments |-> <<>>,
     decision |-> "REQUEST_CHANGES"]

\* lines 271-275: the response returned for an empty diff
EmptyDiffReview ==
    [summary |-> JoinWords(EmptyDiffWords), comments |-> <<>>, decision |-> "APPROVE"]

\* IsEmptyDiff without the strip
IsEmptyDiffExact(diff_content) == diff_content = <<>>

\* line 269: not diff_content.strip()
IsEmptyDiff(diff_content) == CharStrip(diff_content) = <<>>

\* LlmArgument that passes the diff on as fetched
LlmArgumentUntruncated(diff_content) == diff_content

\* lines 278-281: the diff handed to call_openrouter_llm
LlmArgument(diff_content) == truncate_diff(diff_content, MAX_DIFF_CHARS)

\* what review_pull_request gives: nothing yet, a response, or an exception
NoReview == [kind |-> "none"]
Raise(exc, msg) == [kind |-> "error", exc |-> exc, msg |-> msg]

-----------------------------------------------------------------------------
(* Inputs *)

MaxComments == 2
MaxDiffLen == 7
MaxLimit == 6
MaxLine == 10
MaxTail == 2

SeqsUpTo(S, n) == UNION {[1..m -> S] : m \in 0..n}

\* a field left out of an object
Absent == [t |-> "absent"]
Obj(pairs) == VDict(SelectSeq(pairs, LAMBDA p : p.v # Absent))

DecisionVals ==
    {Absent, VStr("APPROVE"), VStr("approve"), VStr("REQUEST_CHANGES"),
     VStr("X"), VStr(""), VNull, VInt(7), VList(<<>>), VBool(TRUE)}

SummaryVals == {Absent, VStr("ok"), VInt(7), VNull}

LineVals ==
    {Absent, VInt(-5), VInt(0), VInt(1), VInt(42), VStr("abc"), VStr("12"),
     VNull, VBool(TRUE), VFloat(2, 5), VList(<<>>)}

Entry(file, line, issue, suggestion) ==
    Obj(<<Pair("file", file), Pair("line", line), Pair("issue", issue),
          Pair("suggestion", suggestion)>>)

GoodEntry == Entry(VStr("a.py"), VInt(42), VStr("i"), VStr("s"))

\* entries of a comments array: objects with every kind of line, objects with
\* fields missing or of another type, and entries that are no object at all
ObjectEntries ==
    {Entry(VStr("a.py"), l, VStr("i"), VStr("s")) : l \in LineVals}
    \cup {Entry(Absent, VInt(3), Absent, Absent),
          Entry(VInt(7), VInt(2), VNull, VList(<<VStr("x")>>))}
NonObjectEntries == {VStr("x"), VInt(3), VNull, VList(<<>>)}
Entries == ObjectEntries \cup NonObjectEntries

\* values of the comments field that are no list
NonListComments ==
    {VNull, VStr("bad"), VStr(""), VInt(3), VDict(<<>>),
     VDict(<<Pair("a", VInt(1))>>)}

Data(summary, comments, decision) ==
    Obj(<<Pair("summary", summary), Pair("comments", comments),
          Pair("decision", decision)>>)

\* every combination of the three fields, with few comment lists
FieldData ==
    {Data(s, c, d) : s \in SummaryVals, d \in DecisionVals,
                     c \in NonListComments
                           \cup {Absent, VList(<<>>), VList(<<GoodEntry>>)}}

\* every comment list up to MaxComments entries
ListData ==
    {Data(VStr("ok"), VList(cs), VStr("APPROVE")) : cs \in SeqsUpTo(Entries, MaxComments)}

\* JSON values that are no object
TopLevelOther == {VList(<<VInt(1)>>), VStr("ok"), VInt(3), VNull, VList(<<GoodEntry>>)}

\* objects with a repeated key
RepeatedKey ==
    {VDict(<<Pair("decision", VStr(a)), Pair("decision", VStr(b))>>) :
        a, b \in {"APPROVE", "X"}}

\* compact form of a text: json.dumps output without the blanks
Compact(t) == SelectSeq(t, LAMBDA x : x # Ch(" "))

\* texts whose direct parse gives an object
FieldTexts ==
    {Dumps(v) : v \in FieldData \cup RepeatedKey}
    \cup {Compact(Dumps(v)) : v \in FieldData}
    \cup {<<Ch("\n")>> \o Dumps(v) \o <<Ch(" ")>> : v \in RepeatedKey}

ListTexts == {Dumps(v) : v \in ListData}

PlainTexts == FieldTexts \cup ListTexts \cup {Dumps(v) : v \in TopLevelOther}

Fence == <<Backtick, Backtick, Backtick>>

\* ways to wrap a text in a fenced block: the opening fence line, the line
\* end before the closing fence, the blanks before and after the block
FenceStyles ==
    {[open |-> Fence \o <<Word("json")>>, nl |-> <<Ch("\n")>>, pre |-> <<>>, post |-> <<>>],
     [open |-> Fence, nl |-> <<Ch("\n")>>, pre |-> <<>>, post |-> <<Ch("\n")>>],
     [open |-> Fence \o <<Word("json")>>, nl |-> <<>>, pre |-> <<Ch(" ")>>, post |-> <<>>],
     [open |-> Fence \o <<Word("json"), Ch(" ")>>, nl |-> <<Ch("\n")>>,
      pre |-> <<Ch("\n")>>, post |-> <<Ch(" "), Ch("\f")>>],
     [open |-> Fence, nl |-> <<>>, pre |-> <<Ch("\f")>>, post |-> <<Ch(" ")>>]}

Fenced(st, t) ==
    st.pre \o st.open \o <<Ch("\n")>> \o t \o st.nl \o Fence \o st.post

\* text around an object in a chatty answer
Prefixes == {<<>>, <<Word("garbage"), Ch(" ")>>, <<Word("Here"), Ch(":"), Ch("\n")>>}
Suffixes == {<<>>, <<Ch(" "), Word("trailing")>>, <<Ch("\n")>> \o Fence,
             <<Ch(" "), Word("trailing"), Ch(" "), Ch("}")>>}

\* texts that are no JSON at all, or JSON cut or wrapped the wrong way
Damaged(t) ==
    {SubSeq(t, 1, Len(t) - 1), Tail(t), <<Ch("{")>> \o t, <<Ch("{"), Ch(" ")>> \o t,
     Fence \o t \o Fence, Fence \o <<Word("json"), Ch("\n")>> \o t,
     t \o <<Ch(","), Ch(" ")>> \o t, <<Ch("[")>> \o t \o <<Ch(",")>> \o t \o <<Ch("]")>>}

DamagedTexts == UNION {Damaged(Dumps(v)) : v \in FieldData}

OddTexts ==
    {<<>>, <<Ch(" ")>>, <<Ch("\f"), Ch("\n")>>, Fence, Fence \o Fence,
     Fence \o <<Ch("\n")>>, <<Word("garbage")>>, <<Ch("}"), Ch("{")>>, <<Ch("{")>>,
     <<Ch("}")>>, <<Ch("{"), Ch("}")>>, <<Ch("{"), StrLex("decision"), Ch("}")>>,
     <<Ch("{"), StrLex("decision"), Ch(":"), Ch("}")>>,
     <<Ch("{"), StrLex("decision"), Ch(":"), StrLex("APPROVE"), Ch(","), Ch("}")>>,
     <<Ch("{"), StrLex("comments"), Ch(":"), Ch("["), IntLex(1), Ch(","), Ch("]"), Ch("}")>>,
     <<Ch("{"), StrLex("comments"), Ch(":"), Ch("["), IntLex(1), IntLex(2), Ch("]"), Ch("}")>>,
     <<Ch("{"), StrLex("a"), IntLex(1), Ch("}")>>,
     <<Ch("{"), IntLex(1), Ch(":"), IntLex(1), Ch("}")>>,
     <<Ch("{"), StrLex("a"), Ch(":"), IntLex(1), StrLex("b"), Ch(":"), IntLex(1), Ch("}")>>,
     <<Ch("{"), StrLex("a"), Ch(":"), IntLex(1), Ch(","), IntLex(1), Ch("}")>>,
     <<Ch("\f"), Ch("{"), Ch("}"), Ch("\f")>>,
     <<Ch("{"), Ch("\f"), Ch("}")>>}

\* well-formed responses: the schema of the system prompt, lines 32-44
GoodComments ==
    [file : {"a.py", "b.py"}, line : {1, 42}, issue : {"i", ""}, suggestion : {"s"}]

GoodResponses ==
    [summary : {"ok", ""}, comments : SeqsUpTo(GoodComments, MaxComments),
     decision : ReviewDecision]

\* the JSON object of a response, keys in schema order
ToJson(r) ==
    VDict(<<Pair("summary", VStr(r.summary)),
            Pair("comments",
                 VList([i \in 1..Len(r.comments) |->
                          VDict(<<Pair("file", VStr(r.comments[i].file)),
                                  Pair("line", VInt(r.comments[i].line)),
                                  Pair("issue", VStr(r.comments[i].issue)),
                                  Pair("suggestion", VStr(r.comments[i].suggestion))>>)])),
            Pair("decision", VStr(r.decision))>>)

\* diffs: short lines and line ends
DiffChars == {"a", "\n"}
Diffs == SeqsUpTo(DiffChars, MaxDiffLen)
Limits == 0..MaxLimit

\* diffs of one long line and the start of the next, and limits around the
\* length of that line
Run(n) == [i \in 1..n |-> "a"]
LineDiffs == {Run(n) \o <<"\n">> \o Run(m) : n \in (MaxLimit + 1)..MaxLine, m \in 1..MaxTail}
LineLimits == (MaxLimit + 1)..(MaxLine + 1)

\* limits of a second call on the output o of a call with limit n: the same
\* limit, slightly larger ones, and the ones around the length of o
SecondLimits(n, o) == {k \in {n, n + 1, n + 2, Len(o) - 1, Len(o)} : k >= n}

\* URLs: pieces around a pull request path
UrlSchemes == {"https", "http", "ftp"}
UrlHosts == {"github.com", "gitlab.com"}
UrlOwners == {<<"o">>, <<"my", "-", "org">>, <<>>}
UrlTails ==
    {<<"/", "pull", "/", "12">>, <<"/", "pull", "/", "0">>, <<"/", "pull", "/", "007">>,
     <<"/", "pull", "/", "12", "/", "files">>, <<"/", "pull", "/", "12", "abc">>,
     <<"/", "pull", "/">>, <<"/", "pull", "/", "abc">>, <<"/", "pulls", "/", "12">>,
     <<"/", "issues", "/", "12">>, <<"/", "x", "/", "pull", "/", "12">>, <<>>}
UrlAround ==
    {[pre |-> <<>>, post |-> <<>>], [pre |-> <<" ">>, post |-> <<"\n">>],
     [pre |-> <<"see", " ">>, post |-> <<>>]}

Url(scheme, host, owner, tail, ar) ==
    ar.pre \o <<scheme, "://", host, "/">> \o owner \o <<"/", "r">> \o tail \o ar.post

Urls ==
    {Url(sc, h, o, t, ar) :
        sc \in UrlSchemes, h \in UrlHosts, o \in UrlOwners, t \in UrlTails, ar \in UrlAround}

\* what the GitHub API gives: an HTTP error, a timeout, or the diff text
Text(t) == [kind |-> "text", text |-> t]
FetchReplies ==
    {Raise("HTTPStatusError", "404"), Raise("HTTPStatusError", "403"),
     Raise("TimeoutException", "timeout")}
    \cup {Text(d) : d \in {<<>>, <<"\n">>, <<" ", "\n", "\t">>, <<"a">>,
                           <<"\n", "a", "\n">>,
                           Run(MAX_DIFF_CHARS), Run(MAX_DIFF_CHARS + 1),
                           Run(MAX_DIFF_CHARS - 500) \o <<"\n">> \o Run(1000),
                           Run((MAX_DIFF_CHARS * 4) \div 5) \o <<"\n">> \o Run(MAX_DIFF_CHARS)}}

\* what the LLM API gives: an HTTP error, a body without the expected keys,
\* a null content, or the content text
LlmReplies ==
    {Raise("HTTPStatusError", "500"), Raise("KeyError", "choices"), [kind |-> "null"]}
    \cup {Text(t) : t \in
            {Dumps(Data(VStr("ok"), VList(<<>>), VStr("APPROVE"))),
             Dumps(Data(VStr("ok"), VList(<<GoodEntry>>), VStr("approve"))),
             Dumps(Data(VStr("ok"), VList(<<GoodEntry>>), VStr("REQUEST_CHANGES"))),
             Dumps(Data(VStr("ok"), Absent, VStr("X"))),
             Dumps(Data(Absent, VList(<<>>), Absent)),
             Dumps(Data(VStr("ok"), VNull, VStr("APPROVE"))),
             Fenced(CHOOSE st \in FenceStyles : st.pre = <<>> /\ st.post = <<>>,
                    Dumps(Data(VStr("ok"), VList(<<>>), VStr("APPROVE")))),
             <<Word("garbage")>>}}

-----------------------------------------------------------------------------
(* State: one call of one of the functions, and what it gave *)

VARIABLES
    pc,         \* "idle" before the call, "done" after it
    raw,        \* text last handed to parse_llm_response
    origin,     \* how that text was made
    data,       \* the JSON value the call parsed out of the text
    outcome,    \* what the call returned or raised
    log,        \* the lines it logged
    diff,       \* diff last handed to truncate_diff
    limit,      \* its max_chars
    out,        \* the string truncate_diff returned
    limit2,     \* max_chars of a second call, on out
    out2,       \* the string the second call returned
    url,            \* pr_url handed to review_pull_request
    key_set,        \* whether OPENROUTER_API_KEY is configured
    pr,             \* the tuple parse_pr_url returned
    fetched,        \* diff_content as fetch_pr_diff returned it
    llm_arg,        \* diff_content as handed to call_openrouter_llm
    github_calls,   \* calls of fetch_pr_diff so far
    llm_calls,      \* calls of call_openrouter_llm so far
    review,         \* what review_pull_request returned or raised
    visited         \* the steps the run went through

rvars == <<url, key_set, pr, fetched, llm_arg, github_calls, llm_calls, review, visited>>
vars == <<pc, raw, origin, data, outcome, log, diff, limit, out, limit2, out2,
          url, key_set, pr, fetched, llm_arg, github_calls, llm_calls, review, visited>>
nvars == <<raw, origin, data, outcome, log>>
tvars == <<diff, limit, out, limit2, out2>>

Init ==
    /\ pc = "idle"
    /\ raw = <<>>
    /\ origin = [how |-> "none"]
    /\ data = NoData
    /\ outcome = [kind |-> "none"]
    /\ log = <<>>
    /\ diff = <<>>
    /\ limit = 0
    /\ out = <<>>
    /\ limit2 = 0
    /\ out2 = <<>>
    /\ url = <<>>
    /\ key_set = FALSE
    /\ pr = [ok |-> FALSE]
    /\ fetched = <<>>
    /\ llm_arg = <<>>
    /\ github_calls = 0
    /\ llm_calls = 0
    /\ review = NoReview
    /\ visited = <<>>

\* one call of parse_llm_response
Call(text, org) ==
    LET res == parse_llm_response(text) IN
    /\ pc = "idle"
    /\ pc' = "done"
    /\ raw' = text
    /\ origin' = org
    /\ data' = res.data
    /\ outcome' = res.result
    /\ log' = res.log
    /\ UNCHANGED tvars
    /\ UNCHANGED rvars

NormalizePlain ==
    \E t \in PlainTexts : Call(t, [how |-> "plain"])

NormalizeFenced ==
    \E t \in FieldTexts, st \in FenceStyles :
        Call(Fenced(st, t), [how |-> "fenced", inner |-> t])

NormalizeEmbedded ==
    \E t \in FieldTexts, pre \in Prefixes, post \in Suffixes :
        /\ pre \o post # <<>>
        /\ Call(pre \o t \o post, [how |-> "embedded"])

NormalizeDamaged ==
    \E t \in OddTexts \cup DamagedTexts :
        Call(t, [how |-> "damaged"])

NormalizeRoundTrip ==
    \E r \in GoodResponses, compact \in BOOLEAN :
        Call(IF compact THEN Compact(Dumps(ToJson(r))) ELSE Dumps(ToJson(r)),
             [how |-> "roundtrip", r |-> r])

\* one call of truncate_diff
CallTruncate(d, n) ==
    /\ pc = "idle"
    /\ pc' = "done"
    /\ diff' = d
    /\ limit' = n
    /\ out' = truncate_diff(d, n)
    /\ UNCHANGED <<limit2, out2>>
    /\ UNCHANGED nvars
    /\ UNCHANGED rvars

Truncate == \E d \in Diffs, n \in Limits : CallTruncate(d, n)

TruncateLines == \E d \in LineDiffs, n \in LineLimits : CallTruncate(d, n)

\* truncate_diff applied to its own output with the same or a larger limit
Retruncate ==
    \E n2 \in SecondLimits(limit, out) :
        /\ pc = "done" /\ origin.how = "none"
        /\ pc' = "redone"
        /\ limit2' = n2
        /\ out2' = truncate_diff(out, n2)
        /\ UNCHANGED <<diff, limit, out>>
        /\ UNCHANGED nvars
        /\ UNCHANGED rvars

-----------------------------------------------------------------------------
(* review_pull_request, step by step *)

Goto(step) == pc' = step /\ visited' = Append(visited, step)

Fail(err) == Goto("Failed") /\ review' = err

\* line 257: the call, with the configuration of the process
StartReview ==
    \E u \in Urls, k \in BOOLEAN :
        /\ pc = "idle"
        /\ Goto("ParsingURL")
        /\ url' = u
        /\ key_set' = k
        /\ UNCHANGED <<pr, fetched, llm_arg, github_calls, llm_calls, review>>
        /\ UNCHANGED <<nvars, tvars>>

\* line 264
ParseURL ==
    /\ pc = "ParsingURL"
    /\ LET r == parse_pr_url(url) IN
       IF r.ok
       THEN Goto("FetchingDiff") /\ pr' = r /\ UNCHANGED review
       ELSE Fail(Raise(r.exc, r.msg)) /\ UNCHANGED pr
    /\ UNCHANGED <<url, key_set, fetched, llm_arg, github_calls, llm_calls>>
    /\ UNCHANGED <<nvars, tvars>>

\* line 267: fetch_pr_diff is called once; it raises or returns the text
FetchDiff ==
    \E reply \in FetchReplies :
        /\ pc = "FetchingDiff"
        /\ github_calls' = github_calls + 1
        /\ IF reply.kind = "text"
           THEN Goto("CheckingEmpty") /\ fetched' = reply.text /\ UNCHANGED review
           ELSE Fail(reply) /\ UNCHANGED fetched
        /\ UNCHANGED <<url, key_set, pr, llm_arg, llm_calls>>
        /\ UNCHANGED <<nvars, tvars>>

\* lines 269-275
CheckEmpty ==
    /\ pc = "CheckingEmpty"
    /\ IF IsEmptyDiff(fetched)
       THEN Goto("Done") /\ review' = Returned(EmptyDiffReview)
       ELSE Goto("Truncating") /\ UNCHANGED review
    /\ UNCHANGED <<url, key_set, pr, fetched, llm_arg, github_calls, llm_calls>>
    /\ UNCHANGED <<nvars, tvars>>

\* line 278
TruncateStep ==
    /\ pc = "Truncating"
    /\ Goto("CallingModel")
    /\ llm_arg' = LlmArgument(fetched)
    /\ UNCHANGED <<url, key_set, pr, fetched, github_calls, llm_calls, review>>
    /\ UNCHANGED <<nvars, tvars>>

\* line 281: call_openrouter_llm is called once; it raises ValueError when
\* the key is missing (lines 142-144), raises what the request raises, or
\* returns the content of the reply
CallModel ==
    \E reply \in LlmReplies :
        /\ pc = "CallingModel"
        /\ llm_calls' = llm_calls + 1
        /\ IF ~key_set
           THEN Fail(Raise("ValueError", "OPENROUTER_API_KEY environment variable is not set"))
                /\ UNCHANGED raw
           ELSE IF reply.kind = "error" THEN Fail(reply) /\ UNCHANGED raw
           ELSE /\ Goto("Normalizing")
                /\ raw' = (IF reply.kind = "null" THEN <<LitLex("None")>> ELSE reply.text)
                /\ UNCHANGED review
        /\ origin' = [how |-> IF reply.kind = "null" /\ key_set THEN "null content" ELSE "review"]
        /\ UNCHANGED <<data, outcome, log>>
        /\ UNCHANGED <<url, key_set, pr, fetched, llm_arg, github_calls>>
        /\ UNCHANGED tvars

\* line 284: parse_llm_response returns the response or raises; a content
\* of None has no strip (line 200) and raises AttributeError
NormalizeStep ==
    /\ pc = "Normalizing"
    /\ IF origin.how = "null content"
       THEN Fail(Raise("AttributeError", "strip")) /\ UNCHANGED <<data, outcome, log>>
       ELSE LET res == parse_llm_response(raw) IN
            /\ data' = res.data
            /\ outcome' = res.result
            /\ log' = res.log
            /\ IF res.result.kind = "ok"
               THEN Goto("Done") /\ review' = res.result
               ELSE Fail(res.result)
    /\ UNCHANGED <<raw, origin>>
    /\ UNCHANGED <<url, key_set, pr, fetched, llm_arg, github_calls, llm_calls>>
    /\ UNCHANGED tvars

NextReview ==
    \/ StartReview
    \/ ParseURL
    \/ FetchDiff
    \/ CheckEmpty
    \/ TruncateStep
    \/ CallModel
    \/ NormalizeStep

SpecReview == Init /\ [][NextReview]_vars

NextNormalize ==
    \/ NormalizePlain
    \/ NormalizeFenced
    \/ NormalizeEmbedded
    \/ NormalizeDamaged
    \/ NormalizeRoundTrip

NextTruncate == Truncate \/ TruncateLines \/ Retruncate

SpecNormalize == Init /\ [][NextNormalize]_vars
SpecTruncate == Init /\ [][NextTruncate]_vars

Next == NextNormalize \/ NextTruncate \/ NextReview
Spec == Init /\ [][Next]_vars

-----------------------------------------------------------------------------
(* Vocabulary of the properties *)

Normalized == pc = "done" /\ origin.how # "none"
Truncated == pc = "done" /\ origin.how = "none"
Retruncated == pc = "redone"

\* the decision field of the parsed object is a string or is left out
DecisionIsText ==
    data.t = "dict" /\ DictGet(data, "decision", VStr("REQUEST_CHANGES")).t = "str"

\* an entry every field of which the code converts: an object whose line is an
\* integer or is left out
PlainEntry(c) == c.t = "dict" /\ DictGet(c, "line", VInt(1)).t = "int"

\* the comments field of the parsed object is left out or is a list of plain
\* entries
CommentsArePlain ==
    /\ data.t = "dict"
    /\ LET cv == DictGet(data, "comments", VList(<<>>)) IN
       cv.t = "list" /\ \A i \in 1..Len(cv.items) : PlainEntry(cv.items[i])

\* the decision the specification asks for: APPROVE or REQUEST_CHANGES when
\* the field upper-cases to one of them, REQUEST_CHANGES for anything else
SpecifiedDecision(d) ==
    IF d.t = "str" /\ PyUpper(d.s) \in ReviewDecision THEN PyUpper(d.s)
    ELSE "REQUEST_CHANGES"

\* the line the specification asks for: the integer when it is at least 1, and
\* 1 for an integer below 1, a missing line and a line that is no number
SpecifiedLine(v) == IF v.t = "int" /\ v.n >= 1 THEN v.n ELSE 1

\* a line whose specified value is beyond doubt: an integer, a missing line,
\* a string without digits, null
ClearLine(v) == v \in {Absent, VNull, VStr("abc")} \/ v.t = "int"

\* from the first "{" of a text to its last "}", <<>> when there is no such pair
OuterBraceSpan(t) ==
    LET pairs == {p \in (1..Len(t)) \X (1..Len(t)) :
                    /\ p[1] < p[2] /\ t[p[1]] = Ch("{") /\ t[p[2]] = Ch("}")
                    /\ \A i \in 1..Len(t) : (t[i] = Ch("{") => p[1] <= i)
                                            /\ (t[i] = Ch("}") => i <= p[2])}
    IN IF pairs = {} THEN <<>>
       ELSE LET p == CHOOSE q \in pairs : TRUE IN SubSeq(t, p[1], p[2])

\* the steps of a run that reviews a diff, and of a run that takes the
\* empty-diff shortcut
FullRun ==
    <<"ParsingURL", "FetchingDiff", "CheckingEmpty", "Truncating", "CallingModel",
      "Normalizing", "Done">>
ShortcutRun == <<"ParsingURL", "FetchingDiff", "CheckingEmpty", "Done">>

IsPrefix(a, b) == Len(a) <= Len(b) /\ SubSeq(b, 1, Len(a)) = a

\* the run went through the step
Stepped(step) == \E i \in 1..Len(visited) : visited[i] = step

\* the steps of the run before it failed, all its steps when it did not
StepsTaken == IF pc = "Failed" THEN SubSeq(visited, 1, Len(visited) - 1) ELSE visited

\* the string has the words "no changes" in it
ContainsNoChanges(summary) ==
    \E i \in 0..Len(EmptyDiffWords), j \in 0..Len(EmptyDiffWords) :
        /\ i + 2 <= j
        /\ SubSeq(EmptyDiffWords, i + 1, i + 2) = <<"no", "changes">>
        /\ summary = JoinWords(SubSeq(EmptyDiffWords, 1, i)
                               \o <<"no changes">>
                               \o SubSeq(EmptyDiffWords, i + 3, Len(EmptyDiffWords)))

\* the whole URL is scheme://host/owner/repo/pull/number, whatever the host
MatchesWholePattern(u) ==
    LET h == RunEnd(u, 3)
        o == RunEnd(u, h + 1)
        r == RunEnd(u, o + 1)
    IN /\ UrlAt(u, 1) \in {"http", "https"} /\ UrlAt(u, 2) = "://"
       /\ h > 3 /\ UrlAt(u, h) = "/"
       /\ o > h + 1 /\ UrlAt(u, o) = "/"
       /\ r > o + 1 /\ UrlAt(u, r) = "/"
       /\ UrlAt(u, r + 1) = "pull" /\ UrlAt(u, r + 2) = "/"
       /\ IsDigits(UrlAt(u, r + 3))
       /\ Len(u) = r + 3

\* the diff has nothing but blanks, tabs and line ends in it
IsBlank(d) == \A i \in 1..Len(d) : d[i] \in CharWs

\* the object the normalizer parsed says APPROVE
ParsedSaysApprove ==
    /\ data.t = "dict"
    /\ LET d == DictGet(data, "decision", VStr("REQUEST_CHANGES")) IN
       d.t = "str" /\ PyUpper(d.s) = "APPROVE"

-----------------------------------------------------------------------------
(* Properties of parse_llm_response *)

\* C1: whenever the text parsed to an object, a decision that is missing,
\* unrecognized or of another type than string gives a returned response with
\* decision REQUEST_CHANGES (the call does not fail because of the decision),
\* and a returned APPROVE comes only from a string that upper-cases to APPROVE.
C1_DecisionCoercion ==
    (Normalized /\ CommentsArePlain) =>
        LET d == DictGet(data, "decision", Absent) IN
        /\ outcome.kind = "ok"
        /\ outcome.response.decision = SpecifiedDecision(d)

\* C2: every call ends either with a response whose decision is one of the
\* two enum values and whose comments all have line >= 1 and the four string
\* fields, or with a ValueError and no response.
C2_TwoOutcomes ==
    Normalized =>
        \/ /\ outcome.kind = "ok"
           /\ DOMAIN outcome = {"kind", "response"}
           /\ DOMAIN outcome.response = {"summary", "comments", "decision"}
           /\ outcome.response.decision \in ReviewDecision
           /\ \A i \in 1..Len(outcome.response.comments) :
                 /\ DOMAIN outcome.response.comments[i]
                        = {"file", "line", "issue", "suggestion"}
                 /\ outcome.response.comments[i].line >= 1
        \/ /\ outcome.kind = "error"
           /\ outcome.exc = "ValueError"
           /\ "response" \notin DOMAIN outcome

\* a call that clamped a line and returned, the other outcome being an error
C2_Witness ==
    /\ Normalized /\ outcome.kind = "ok"
    /\ DictGet(data, "comments", VList(<<>>)) = VList(<<Entry(VStr("a.py"), VInt(-5), VStr("i"), VStr("s"))>>)
    /\ outcome.response.comments[1].line = 1

\* C3: for a comments array of objects, every entry is kept and its line is
\* the integer given when that is >= 1 and 1 otherwise: a negative, zero,
\* missing or non-numeric line becomes 1.
C3_LineClamped ==
    (/\ Normalized /\ DecisionIsText
     /\ LET cv == DictGet(data, "comments", VList(<<>>)) IN
        /\ cv.t = "list"
        /\ \A i \in 1..Len(cv.items) :
              cv.items[i].t = "dict" /\ ClearLine(DictGet(cv.items[i], "line", Absent)))
    => /\ outcome.kind = "ok"
       /\ LET items == DictGet(data, "comments", VList(<<>>)).items IN
          /\ Len(outcome.response.comments) = Len(items)
          /\ \A i \in 1..Len(items) :
                outcome.response.comments[i].line
                    = SpecifiedLine(DictGet(items[i], "line", Absent))

\* C4: entries of the comments array that are no object are skipped, the
\* call returns, and the response holds the other entries in their order.
C4_BadEntrySkipped ==
    (/\ Normalized /\ DecisionIsText
     /\ LET cv == DictGet(data, "comments", VList(<<>>)) IN
        /\ cv.t = "list"
        /\ \A i \in 1..Len(cv.items) :
              cv.items[i].t = "dict" => PlainEntry(cv.items[i]))
    => /\ outcome.kind = "ok"
       /\ LET kept == SelectSeq(DictGet(data, "comments", VList(<<>>)).items,
                                LAMBDA c : c.t = "dict")
          IN /\ Len(outcome.response.comments) = Len(kept)
             /\ \A i \in 1..Len(kept) :
                   /\ outcome.response.comments[i].file
                          = PyStr(DictGet(kept[i], "file", VStr("unknown")))
                   /\ outcome.response.comments[i].line
                          = SpecifiedLine(DictGet(kept[i], "line", Absent))

\* C5: when the comments field is missing or is no list, the call returns a
\* response with no comments and with the summary and the decision of the
\* object.
C5_CommentsNotAList ==
    (/\ Normalized /\ DecisionIsText
     /\ DictGet(data, "comments", Absent).t # "list")
    => /\ outcome.kind = "ok"
       /\ outcome.response.comments = <<>>
       /\ outcome.response.summary
              = PyStr(DictGet(data, "summary", VStr("No summary provided")))
       /\ outcome.response.decision
              = SpecifiedDecision(DictGet(data, "decision", Absent))

\* C6: the JSON text of a well-formed response parses back to that response:
\* same summary, same decision, the same comments in the same order.
C6_RoundTrip ==
    (Normalized /\ origin.how = "roundtrip") => outcome = Returned(origin.r)

\* a response with two different comments came back with both
C6_Witness ==
    /\ Normalized /\ origin.how = "roundtrip" /\ outcome.kind = "ok"
    /\ Len(origin.r.comments) = 2
    /\ origin.r.comments[1] # origin.r.comments[2]
    /\ Len(outcome.response.comments) = 2

\* C7: the outer-brace scan runs only when the direct parse of the cleaned
\* text failed; when its span parses, the result is that of the span given
\* alone; when there is no span or the span does not parse, the call raises a
\* ValueError that carries the error of the direct parse.
C7_FallbackChain ==
    Normalized =>
        LET cleaned == Clean(raw)
            direct == JsonLoads(cleaned)
            span == OuterBraceSpan(cleaned)
            scanned == \E i \in 1..Len(log) : log[i] = "warning: attempting regex extraction"
        IN /\ scanned <=> ~direct.ok
           /\ (~direct.ok /\ span # <<>> /\ JsonLoads(span).ok)
                 => /\ JsonLoads(span).v.t = "dict"
                    /\ outcome = parse_llm_response(span).result
           /\ (~direct.ok /\ (span = <<>> \/ ~JsonLoads(span).ok))
                 => /\ outcome.kind = "error"
                    /\ outcome.exc = "ValueError"
                    /\ outcome.cause = [msg |-> direct.msg, pos |-> direct.pos]

\* the scan recovered an object with an inner object from a chatty answer
C7_Witness ==
    /\ Normalized /\ origin.how = "embedded" /\ outcome.kind = "ok"
    /\ ~JsonLoads(Clean(raw)).ok
    /\ Len(outcome.response.comments) = 1
    /\ \E i \in 1..Len(log) : log[i] = "warning: attempting regex extraction"

\* C8: a text whose direct parse gives an object, wrapped in a fenced block,
\* gives the same result as the text alone.
C8_FenceTransparent ==
    (/\ Normalized /\ origin.how = "fenced"
     /\ JsonLoads(origin.inner).ok /\ JsonLoads(origin.inner).v.t = "dict")
    => outcome = parse_llm_response(origin.inner).result

\* a fenced block with a language tag and blanks around it gave a response
C8_Witness ==
    /\ Normalized /\ origin.how = "fenced" /\ outcome.kind = "ok"
    /\ StartsWithFence(Strip(raw)) /\ raw # Strip(raw)
    /\ outcome.response.decision = "APPROVE"

-----------------------------------------------------------------------------
(* Properties of truncate_diff *)

\* 0-based index of the last newline within the first limit characters,
\* -1 when there is none
LastBoundary ==
    LET hit == {i \in 1..limit : i <= Len(diff) /\ diff[i] = "\n"} IN
    IF hit = {} THEN -1 ELSE (CHOOSE i \in hit : \A j \in hit : i >= j) - 1

\* C9: a diff longer than the limit gives a prefix of the diff of at most
\* limit characters followed by the marker, so at most limit + marker length
\* characters; a diff within the limit is returned unchanged.
C9_TruncateBound ==
    Truncated =>
        IF Len(diff) > limit
        THEN /\ \E k \in 0..limit : out = SubSeq(diff, 1, k) \o TruncationMarker
             /\ Len(out) <= limit + Len(TruncationMarker)
        ELSE out = diff

\* a diff was cut
C9_Witness ==
    Truncated /\ limit > 0 /\ Len(diff) > limit /\ Len(out) = limit + Len(TruncationMarker)

-----------------------------------------------------------------------------
(* Properties of review_pull_request and parse_pr_url *)

\* C12: when fetch_pr_diff returned the empty string, the run goes from
\* CheckingEmpty to Done and nowhere else, what it returns there is a
\* response whose summary contains "no changes", whose comments are empty
\* and whose decision is APPROVE, and call_openrouter_llm is not called in
\* the run, with or without the API key.
C12_EmptyDiffShortcut ==
    (Stepped("CheckingEmpty") /\ fetched = <<>>) =>
        /\ llm_calls = 0
        /\ IsPrefix(visited, ShortcutRun)
        /\ pc = "CheckingEmpty" => ENABLED CheckEmpty
        /\ pc = "Done" =>
            /\ review.kind = "ok"
            /\ ContainsNoChanges(review.response.summary)
            /\ review.response.comments = <<>>
            /\ review.response.decision = "APPROVE"

C12_Witness ==
    /\ pc = "Done" /\ visited = ShortcutRun
    /\ fetched = <<>> /\ ~key_set
    /\ llm_calls = 0 /\ review = Returned(EmptyDiffReview)

\* C13: parse_pr_url returns a reference only for a URL that is, as a whole,
\* scheme://host/owner/repo/pull/number, the reference has a non-empty owner
\* and repo and a number of at least 1, and for every other URL it raises the
\* invalid-URL error and gives no reference.
C13_WholePatternOnly ==
    Stepped("ParsingURL") /\ pc # "ParsingURL" =>
        IF pr.ok
        THEN /\ MatchesWholePattern(CharStrip(url))
             /\ pr.owner # "" /\ pr.repo # ""
             /\ pr.number >= 1
        ELSE /\ pc = "Failed"
             /\ review = Raise("ValueError", "Invalid GitHub PR URL format")

\* C14: the steps of a run are a beginning of ParsingURL, FetchingDiff,
\* CheckingEmpty, Truncating, CallingModel, Normalizing, Done (or the
\* shortcut from CheckingEmpty to Done), followed by Failed when a step
\* failed and by nothing after that; fetch_pr_diff is called at most once
\* and only with a parsed URL; call_openrouter_llm is called at most once,
\* only after a fetch that returned, and with the truncated diff, which is
\* no longer than the limit plus the marker; what a failed step raised is
\* what the run raises; a run gives a response or an error, never both.
C14_LinearPipeline ==
    /\ pc # "idle" => pc = visited[Len(visited)]
    /\ IsPrefix(StepsTaken, FullRun) \/ StepsTaken = ShortcutRun
    /\ pc = "Failed" => StepsTaken # <<>> /\ StepsTaken[Len(StepsTaken)] # "Done"
    /\ github_calls <= 1
    /\ github_calls = 1 <=> Len(StepsTaken) >= 2 /\ pc # "FetchingDiff"
    /\ github_calls = 1 => pr.ok /\ parse_pr_url(url) = pr
    /\ llm_calls <= 1
    /\ llm_calls = 1 <=> Len(StepsTaken) >= 5 /\ pc # "CallingModel"
    /\ llm_calls = 1 =>
        /\ Stepped("CheckingEmpty") /\ github_calls = 1
        /\ llm_arg = truncate_diff(fetched, MAX_DIFF_CHARS)
        /\ Len(llm_arg) <= MAX_DIFF_CHARS + Len(TruncationMarker)
    /\ review.kind = "ok" <=> pc = "Done"
    /\ review.kind = "error" <=> pc = "Failed"
    /\ pc = "Failed" =>
        LET last == StepsTaken[Len(StepsTaken)] IN
        /\ last = "ParsingURL" => review.exc = "ValueError" /\ ~parse_pr_url(url).ok
        /\ last = "FetchingDiff" => review \in FetchReplies
        /\ last = "CallingModel" =>
            IF key_set THEN review \in LlmReplies
            ELSE review.exc = "ValueError"
        /\ last = "Normalizing" =>
            review = outcome \/ (origin.how = "null content" /\ review.exc = "AttributeError")
        /\ last \notin {"CheckingEmpty", "Truncating"}

C14_Witness ==
    /\ pc = "Done" /\ visited = FullRun
    /\ Len(fetched) > MAX_DIFF_CHARS
    /\ Len(llm_arg) < Len(fetched)
    /\ github_calls = 1 /\ llm_calls = 1
    /\ review.kind = "ok"

\* C15 as stated: the shortcut is taken only when fetch_pr_diff returned the
\* empty string; after any other string, a string of blanks and line ends
\* included, the run goes on to Truncating and calls call_openrouter_llm, and
\* it returns APPROVE only if the object the normalizer parsed says APPROVE.
C15_ShortcutOnlyForEmptyString ==
    /\ StepsTaken = ShortcutRun => fetched = <<>>
    /\ (Stepped("CheckingEmpty") /\ pc # "CheckingEmpty" /\ fetched # <<>>) =>
        /\ Stepped("Truncating")
        /\ pc \notin {"Truncating", "CallingModel"} => llm_calls = 1
        /\ (pc = "Done" /\ review.response.decision = "APPROVE") => ParsedSaysApprove

\* C15, amended: the shortcut is taken exactly when the string
\* fetch_pr_diff returned is empty once blanks, tabs and line ends are
\* stripped; after a string with any other character in it the run goes on
\* to Truncating and calls call_openrouter_llm, and it returns APPROVE only if
\* the object the normalizer parsed says APPROVE.
C15_ShortcutOnlyForBlank ==
    /\ StepsTaken = ShortcutRun => IsBlank(fetched)
    /\ (Stepped("CheckingEmpty") /\ pc # "CheckingEmpty" /\ IsBlank(fetched)) =>
        /\ visited = ShortcutRun
        /\ llm_calls = 0
    /\ (Stepped("CheckingEmpty") /\ pc # "CheckingEmpty" /\ ~IsBlank(fetched)) =>
        /\ Stepped("Truncating")
        /\ pc \notin {"Truncating", "CallingModel"} => llm_calls = 1
        /\ (pc = "Done" /\ review.response.decision = "APPROVE") => ParsedSaysApprove

C15_Witness ==
    /\ pc = "Done" /\ visited = ShortcutRun
    /\ fetched # <<>> /\ IsBlank(fetched)
    /\ llm_calls = 0 /\ review.response.decision = "APPROVE"

====
